---- MODULE Spec2Model ----
(***************************************************************************)
(* Model of population_stat (src/app.py): the DatabaseManager (connection  *)
(* with retries, init_db, save_data, get_all_data, get_aggregated_stats),  *)
(* the two API functions (fetch_api_data, get_population_world_bank) and   *)
(* the part of main() that drives them.                                    *)
(*                                                                         *)
(* Spec        one Streamlit session after another running main() against  *)
(*             one PostgreSQL database, with a second session reading the  *)
(*             table concurrently.                                         *)
(* SpecAgg     get_aggregated_stats over every small stored table.         *)
(* SpecFetch   fetch_api_data over every small JSON response.              *)
(* SpecHistory get_population_world_bank over every small JSON response.   *)
(***************************************************************************)
EXTENDS Integers, Sequences, FiniteSets, TLC

VARIABLES
    tableExists,  \* the countries table exists (committed DDL)
    committed,    \* committed rows of countries, in heap (insertion) order
    conn,         \* self.conn of the session's DatabaseManager: "none" | "open"
    txn,          \* transaction state of self.conn: "idle" | "open" | "aborted"
    work,         \* rows of countries as seen inside the connection's open transaction
    attempts,     \* psycopg2.connect calls made by _connect
    waited,       \* time units slept by _connect
    pc,           \* position of the session's main()
    df_api,       \* main: df_api, the fetched snapshot (a sequence of rows)
    idx,          \* executemany: index of the next tuple of data_tuples
    df_db,        \* main: df_db, the result of get_all_data
    df_agg,       \* main: df_agg, the result of get_aggregated_stats
    ui,           \* messages the session has put on the page: <<kind, cause>>
    fetches,      \* requests.get calls made by fetch_api_data in this session
    load,         \* outcome of save_data in this session: "none" | "ok" | "init_failed" | "insert_failed"
    prev,         \* the table when the session's reload was triggered: [exists, rows]
    observed,     \* rows the concurrent session's get_all_data returned last
    obsMid,       \* that read ran between init_db's commit and save_data's commit
    aggTable,     \* SpecAgg: the stored rows
    aggOut,       \* SpecAgg: results of get_aggregated_stats on aggTable, one per run
    fetchIn,      \* SpecFetch: the JSON response given to fetch_api_data
    fetchOut,     \* SpecFetch: the DataFrame fetch_api_data returned
    histIn,       \* SpecHistory: the JSON response given to get_population_world_bank
    histOut,      \* SpecHistory: [none, rows, error]: the return value, st.error called
    hpc           \* position of the pure-function specifications: "idle" | "done"

vars == <<tableExists, committed, conn, txn, work, attempts, waited, pc, df_api,
          idx, df_db, df_agg, ui, fetches, load, prev, observed, obsMid,
          aggTable, aggOut, fetchIn, fetchOut, histIn, histOut, hpc>>

dbVars   == <<tableExists, committed, conn, txn, work, attempts, waited, pc,
              df_api, idx, df_db, df_agg, ui, fetches, load, prev, observed, obsMid>>
pureVars == <<aggTable, aggOut, fetchIn, fetchOut, histIn, histOut, hpc>>

(***************************************************************************)
(* Bounds of the model and constants of the program.                       *)
(***************************************************************************)
MaxRows     == 2    \* country objects in one RestCountries response (Spec)
MaxItems    == 2    \* country objects in one RestCountries response (SpecFetch)
MaxAggRows  == 3    \* stored rows (SpecAgg)
MaxEntries  == 3    \* entries of one World Bank response (SpecHistory)

MaxAttempts == 5    \* for i in range(5)
RetryDelay  == 2    \* time.sleep(2)
VarcharCode == 10   \* cca2 VARCHAR(10), cca3 VARCHAR(10)
VarcharName == 255  \* name VARCHAR(255)
VarcharRegion == 100 \* region VARCHAR(100)

Null   == "<null>"               \* JSON null / Python None / SQL NULL
NullNumber == -1                 \* JSON null where a number is expected
NoObj  == [k \in {} |-> Null]    \* the {} of item.get("name", {})

(***************************************************************************)
(* fetch_api_data                                                          *)
(***************************************************************************)
\* dict.get(key, default)
Get(item, key, default) == IF key \in DOMAIN item THEN item[key] ELSE default

MapItemNoDefaults(item) ==
    [name       |-> Get(Get(item, "name", NoObj), "common", ""),
     cca2       |-> Get(item, "cca2", ""),
     cca3       |-> Get(item, "cca3", ""),
     region     |-> Get(item, "region", ""),
     population |-> Get(item, "population", 0),
     area       |-> Get(item, "area", 0)]

\* the tuple appended to countries_list for one item
MapItem(item) ==
    [name       |-> Get(Get(item, "name", NoObj), "common", "N/A"),
     cca2       |-> Get(item, "cca2", ""),
     cca3       |-> Get(item, "cca3", ""),
     region     |-> Get(item, "region", "Other"),
     population |-> Get(item, "population", 0),
     area       |-> Get(item, "area", 0)]

\* A response is [ok |-> BOOLEAN, body |-> sequence of country objects]; ok is
\* FALSE when requests.get, raise_for_status or response.json() raises.
\* The result is [df |-> rows of the DataFrame, error |-> st.error was called].
fetch_api_data(resp) ==
    IF resp.ok
    THEN [df |-> [i \in 1..Len(resp.body) |-> MapItem(resp.body[i])], error |-> FALSE]
    ELSE [df |-> <<>>, error |-> TRUE]

\* DataFrame.empty
Empty(df) == Len(df) = 0

(***************************************************************************)
(* The countries table                                                     *)
(***************************************************************************)
\* The column types of CREATE TABLE: an over-long string makes INSERT raise.
FitsColumns(row) ==
    /\ Len(row.name) <= VarcharName
    /\ Len(row.cca2) <= VarcharCode
    /\ Len(row.cca3) <= VarcharCode
    /\ Len(row.region) <= VarcharRegion

TruncateKeepsRows(rows) == rows

\* TRUNCATE TABLE countries
Truncate(rows) == <<>>

AutocommitRows(committedRows, txnRows) == txnRows

\* What is committed after one INSERT of executemany: psycopg2 connections are
\* not in autocommit mode, so nothing is until conn.commit().
CommittedAfterInsert(committedRows, txnRows) == committedRows

SaveAlways(df) == TRUE

\* main: if not df_api.empty
ShouldSave(df) == ~Empty(df)

(***************************************************************************)
(* get_aggregated_stats                                                    *)
(***************************************************************************)
IncludedAll(row) == TRUE

\* WHERE region IS NOT NULL AND region != ''
Included(row) == row.region # Null /\ row.region # ""

\* the row numbers of the table that reach the CTE "ranked"
RankedRows(t) == {i \in 1..Len(t) : Included(t[i])}

\* PARTITION BY region
Partition(t, i) == {j \in RankedRows(t) : t[j].region = t[i].region}

RECURSIVE SumPop(_, _)
SumPop(t, S) ==
    IF S = {} THEN 0
    ELSE LET i == CHOOSE j \in S : TRUE IN t[i].population + SumPop(t, S \ {i})

\* SUM(population) OVER (PARTITION BY region); SUM(bigint) is numeric, no overflow
TotalPop(t, i) == SumPop(t, Partition(t, i))

\* ROW_NUMBER() OVER (PARTITION BY region ORDER BY population DESC).  The
\* ORDER BY names population only, so SQL leaves the order of rows with equal
\* population to the executor: tb (a permutation of the row numbers) is the
\* order in which this run's sort leaves them.
RankDesc(t, tb, i) ==
    1 + Cardinality({j \in Partition(t, i) :
            \/ t[j].population > t[i].population
            \/ t[j].population = t[i].population /\ tb[j] < tb[i]})

\* ROW_NUMBER() OVER (PARTITION BY region ORDER BY population ASC)
RankAsc(t, tb, i) ==
    1 + Cardinality({j \in Partition(t, i) :
            \/ t[j].population < t[i].population
            \/ t[j].population = t[i].population /\ tb[j] < tb[i]})

\* the rows numbered 1 in their partitions, per row of "ranked", in a run
\* whose sort leaves equal populations in the order tb
TopRows(t, tb) ==
    [i \in RankedRows(t) |-> CHOOSE j \in Partition(t, i) : RankDesc(t, tb, j) = 1]
BottomRows(t, tb) ==
    [i \in RankedRows(t) |-> CHOOSE j \in Partition(t, i) : RankAsc(t, tb, j) = 1]

\* GROUP BY region, total_pop: total_pop is constant on a partition, so the
\* groups are the partitions.  MAX(CASE WHEN rank = 1 THEN x END) ranges over the
\* single row of the group whose rank is 1: top[i] (rank_desc), bot[i] (rank_asc).
Summary(t, top, bot, i) ==
    [region              |-> t[i].region,
     total_population    |-> TotalPop(t, i),
     largest_country     |-> t[top[i]].name,
     largest_population  |-> t[top[i]].population,
     smallest_country    |-> t[bot[i]].name,
     smallest_population |-> t[bot[i]].population]

Summaries(t, top, bot) == {Summary(t, top, bot, i) : i \in RankedRows(t)}

\* ORDER BY total_pop DESC
OrderedByTotalDesc(s) ==
    \A a, b \in 1..Len(s) : a < b => s[a].total_population >= s[b].total_population

\* the sequences that list the set S once each
Listings(S) ==
    {s \in [1..Cardinality(S) -> S] : \A a, b \in 1..Cardinality(S) : a # b => s[a] # s[b]}

\* The results the query can return for the stored rows t: one per way the
\* executor orders rows of equal population (in each of the two window sorts)
\* and regions of equal total.
get_aggregated_stats(t) ==
    LET tbs  == Permutations(1..Len(t))
        tops == {TopRows(t, tb) : tb \in tbs}
        bots == {BottomRows(t, tb) : tb \in tbs}
        sets == {Summaries(t, top, bot) : top \in tops, bot \in bots}
    IN  UNION {{s \in Listings(S) : OrderedByTotalDesc(s)} : S \in sets}

(***************************************************************************)
(* Spec: sessions of main() against the database                           *)
(***************************************************************************)
SeqsUpTo(S, n) == UNION {[1..k -> S] : k \in 0..n}

\* The country objects the primary source answers with in Spec: a complete one,
\* one with most fields missing, and one whose cca3 does not fit VARCHAR(10).
ItemFull    == [name |-> [common |-> "Aland"], cca2 |-> "AX", cca3 |-> "ALA",
                region |-> "Europe", population |-> 10, area |-> 1]
ItemSparse  == [cca3 |-> "BBB", population |-> 20]
ItemTooLong == [name |-> [common |-> "Cuba"], cca2 |-> "CU", cca3 |-> "ABCDEFGHIJK",
                region |-> "Europe", population |-> 10, area |-> 1]
SessionItems == {ItemFull, ItemSparse, ItemTooLong}

SessionResponses ==
    {[ok |-> FALSE, body |-> <<>>]} \cup
    {[ok |-> TRUE, body |-> b] : b \in SeqsUpTo(SessionItems, MaxRows)}

SessionInit ==
    /\ tableExists = FALSE
    /\ committed = <<>>
    /\ conn = "none"
    /\ txn = "idle"
    /\ work = <<>>
    /\ attempts = 0
    /\ waited = 0
    /\ pc = "connect"
    /\ df_api = <<>>
    /\ idx = 0
    /\ df_db = <<>>
    /\ df_agg = <<>>
    /\ ui = {}
    /\ fetches = 0
    /\ load = "none"
    /\ prev = [exists |-> FALSE, rows |-> <<>>]
    /\ observed = <<>>
    /\ obsMid = FALSE

PureIdle ==
    /\ aggTable = <<>>
    /\ aggOut = <<>>
    /\ fetchIn = [ok |-> FALSE, body |-> <<>>]
    /\ fetchOut = [df |-> <<>>, error |-> FALSE]
    /\ histIn = [ok |-> FALSE, data |-> <<>>]
    /\ histOut = [none |-> TRUE, rows |-> <<>>, error |-> FALSE]
    /\ hpc = "idle"

Init == SessionInit /\ PureIdle

\* _connect: one psycopg2.connect that succeeds, and the return
ConnectOk ==
    /\ pc = "connect"
    /\ UNCHANGED pureVars
    /\ attempts' = attempts + 1
    /\ conn' = "open"
    /\ pc' = "sidebar"
    /\ UNCHANGED <<tableExists, committed, txn, work, waited, df_api, idx, df_db,
                   df_agg, ui, fetches, load, prev, observed, obsMid>>

\* _connect: one psycopg2.connect that raises
ConnectFail ==
    /\ pc = "connect"
    /\ UNCHANGED pureVars
    /\ attempts' = attempts + 1
    /\ pc' = "sleep"
    /\ UNCHANGED <<tableExists, committed, conn, txn, work, waited, df_api, idx,
                   df_db, df_agg, ui, fetches, load, prev, observed, obsMid>>

\* _connect: the except branch's time.sleep(2), then the next turn of the loop
\* or, after the last turn, the statement after the loop
Sleep ==
    /\ pc = "sleep"
    /\ UNCHANGED pureVars
    /\ waited' = waited + RetryDelay
    /\ pc' = IF attempts < MaxAttempts THEN "connect" ELSE "connect_error"
    /\ UNCHANGED <<tableExists, committed, conn, txn, work, attempts, df_api, idx,
                   df_db, df_agg, ui, fetches, load, prev, observed, obsMid>>

\* _connect: st.error after the loop; __init__ returns with self.conn = None
ConnectGiveUp ==
    /\ pc = "connect_error"
    /\ UNCHANGED pureVars
    /\ ui' = ui \cup {<<"error", "db_connect_failed">>}
    /\ pc' = "sidebar"
    /\ UNCHANGED <<tableExists, committed, conn, txn, work, attempts, waited, df_api,
                   idx, df_db, df_agg, fetches, load, prev, observed, obsMid>>

\* main: the reload button is not pressed in this run
NoReload ==
    /\ pc = "sidebar"
    /\ UNCHANGED pureVars
    /\ pc' = "tab1"
    /\ UNCHANGED <<tableExists, committed, conn, txn, work, attempts, waited, df_api,
                   idx, df_db, df_agg, ui, fetches, load, prev, observed, obsMid>>

\* main: the reload button is pressed: df_api = fetch_api_data(), then the
\* test of df_api.empty
ReloadFetch ==
    /\ pc = "sidebar"
    /\ UNCHANGED pureVars
    /\ \E resp \in SessionResponses :
         LET r == fetch_api_data(resp) IN
           /\ df_api' = r.df
           /\ ui' = IF r.error THEN ui \cup {<<"error", "fetch_failed">>} ELSE ui
           /\ pc' = IF ShouldSave(r.df) THEN "init_db" ELSE "tab1"
    /\ fetches' = fetches + 1
    /\ prev' = [exists |-> tableExists, rows |-> committed]
    /\ UNCHANGED <<tableExists, committed, conn, txn, work, attempts, waited, idx,
                   df_db, df_agg, load, observed, obsMid>>

\* save_data -> init_db with self.conn = None: self.conn.cursor() raises
\* AttributeError, which main reports in the sidebar
InitDbNoConn ==
    /\ pc = "init_db"
    /\ UNCHANGED pureVars
    /\ conn = "none"
    /\ ui' = ui \cup {<<"write_error", "NoneType has no attribute cursor">>}
    /\ load' = "init_failed"
    /\ pc' = "tab1"
    /\ UNCHANGED <<tableExists, committed, conn, txn, work, attempts, waited, df_api,
                   idx, df_db, df_agg, fetches, prev, observed, obsMid>>

\* save_data -> init_db: CREATE TABLE IF NOT EXISTS; TRUNCATE; self.conn.commit()
InitDb ==
    /\ pc = "init_db"
    /\ UNCHANGED pureVars
    /\ conn = "open"
    /\ tableExists' = TRUE
    /\ committed' = Truncate(committed)
    /\ work' = Truncate(committed)
    /\ txn' = "idle"
    /\ idx' = 1
    /\ pc' = "executemany"
    /\ UNCHANGED <<conn, attempts, waited, df_api, df_db, df_agg, ui, fetches, load,
                   prev, observed, obsMid>>

\* save_data: executemany inserts the next tuple
InsertRow ==
    /\ pc = "executemany"
    /\ UNCHANGED pureVars
    /\ idx <= Len(df_api)
    /\ FitsColumns(df_api[idx])
    /\ work' = Append(work, df_api[idx])
    /\ committed' = CommittedAfterInsert(committed, work')
    /\ txn' = "open"
    /\ idx' = idx + 1
    /\ UNCHANGED <<tableExists, conn, attempts, waited, pc, df_api, df_db, df_agg,
                   ui, fetches, load, prev, observed, obsMid>>

\* save_data: the INSERT of the next tuple raises (value too long for its
\* column); the exception leaves save_data without commit and main reports it
InsertRowError ==
    /\ pc = "executemany"
    /\ UNCHANGED pureVars
    /\ idx <= Len(df_api)
    /\ ~FitsColumns(df_api[idx])
    /\ txn' = "aborted"
    /\ ui' = ui \cup {<<"write_error", "value too long">>}
    /\ load' = "insert_failed"
    /\ pc' = "tab1"
    /\ UNCHANGED <<tableExists, committed, conn, work, attempts, waited, df_api, idx,
                   df_db, df_agg, fetches, prev, observed, obsMid>>

\* save_data: the server or the link fails during executemany or during the
\* commit; the open transaction is lost and main reports the exception
InsertAborted ==
    /\ pc = "executemany"
    /\ UNCHANGED pureVars
    /\ txn' = "aborted"
    /\ ui' = ui \cup {<<"write_error", "transaction aborted">>}
    /\ load' = "insert_failed"
    /\ pc' = "tab1"
    /\ UNCHANGED <<tableExists, committed, conn, work, attempts, waited, df_api, idx,
                   df_db, df_agg, fetches, prev, observed, obsMid>>

\* save_data: self.conn.commit() after executemany; main reports success
InsertCommit ==
    /\ pc = "executemany"
    /\ UNCHANGED pureVars
    /\ idx > Len(df_api)
    /\ committed' = work
    /\ txn' = "idle"
    /\ ui' = ui \cup {<<"success", "reloaded">>}
    /\ load' = "ok"
    /\ pc' = "tab1"
    /\ UNCHANGED <<tableExists, conn, work, attempts, waited, df_api, idx, df_db,
                   df_agg, fetches, prev, observed, obsMid>>

\* pd.read_sql_query raises: no connection, no table yet, or the connection's
\* transaction was aborted by a failed INSERT
ReadRaises == conn = "none" \/ txn = "aborted" \/ ~tableExists

\* main, tab1: get_all_data raises; except Exception: df_db = pd.DataFrame(),
\* and the empty df_db is shown as "database is empty"
GetAllDataFails ==
    /\ pc = "tab1"
    /\ UNCHANGED pureVars
    /\ ReadRaises
    /\ df_db' = <<>>
    /\ ui' = ui \cup {<<"warning", "database is empty">>}
    /\ pc' = "done"
    /\ UNCHANGED <<tableExists, committed, conn, txn, work, attempts, waited, df_api,
                   idx, df_agg, fetches, load, prev, observed, obsMid>>

\* main, tab1: df_db = db.get_all_data(), then the test of df_db.empty
GetAllData ==
    /\ pc = "tab1"
    /\ UNCHANGED pureVars
    /\ ~ReadRaises
    /\ df_db' = committed
    /\ ui' = IF Empty(committed) THEN ui \cup {<<"warning", "database is empty">>} ELSE ui
    /\ pc' = IF Empty(committed) THEN "done" ELSE "report"
    /\ UNCHANGED <<tableExists, committed, conn, txn, work, attempts, waited, df_api,
                   idx, df_agg, fetches, load, prev, observed, obsMid>>

\* main, tab1: df_agg = db.get_aggregated_stats()
Report ==
    /\ pc = "report"
    /\ UNCHANGED pureVars
    /\ \E out \in get_aggregated_stats(committed) : df_agg' = out
    /\ pc' = "done"
    /\ UNCHANGED <<tableExists, committed, conn, txn, work, attempts, waited, df_api,
                   idx, df_db, ui, fetches, load, prev, observed, obsMid>>

\* Streamlit runs main() again: a new DatabaseManager, a new connection; the
\* old connection is dropped and its open transaction rolled back
Rerun ==
    /\ pc = "done"
    /\ UNCHANGED pureVars
    /\ conn' = "none"
    /\ txn' = "idle"
    /\ work' = <<>>
    /\ attempts' = 0
    /\ waited' = 0
    /\ pc' = "connect"
    /\ df_api' = <<>>
    /\ idx' = 0
    /\ df_db' = <<>>
    /\ df_agg' = <<>>
    /\ ui' = {}
    /\ fetches' = 0
    /\ load' = "none"
    /\ prev' = [exists |-> FALSE, rows |-> <<>>]
    /\ observed' = <<>>
    /\ obsMid' = FALSE
    /\ UNCHANGED <<tableExists, committed>>

\* another session's get_all_data, on its own connection, at any moment
ConcurrentGetAllData ==
    /\ tableExists
    /\ UNCHANGED pureVars
    /\ observed' = committed
    /\ obsMid' = (pc = "executemany")
    /\ UNCHANGED <<tableExists, committed, conn, txn, work, attempts, waited, pc,
                   df_api, idx, df_db, df_agg, ui, fetches, load, prev>>

Next ==
    \/ ConnectOk \/ ConnectFail \/ Sleep \/ ConnectGiveUp
    \/ NoReload \/ ReloadFetch
    \/ InitDbNoConn \/ InitDb
    \/ InsertRow \/ InsertRowError \/ InsertAborted \/ InsertCommit
    \/ GetAllDataFails \/ GetAllData \/ Report
    \/ Rerun
    \/ ConcurrentGetAllData

Spec == Init /\ [][Next]_vars

(***************************************************************************)
(* Properties of Spec                                                      *)
(***************************************************************************)
\* _connect has returned
Connected == pc \notin {"connect", "sleep", "connect_error"}

\* the number of tuples of df equal to row
Count(df, row) == Cardinality({i \in 1..Len(df) : df[i] = row})

SameRecords(a, b) ==
    /\ Len(a) = Len(b)
    /\ \A i \in 1..Len(a) : Count(a, a[i]) = Count(b, a[i])

\* C1: during a reload of a non-empty snapshot over a non-empty table, a
\* concurrent get_all_data never sees anything but the complete previous
\* snapshot or the complete new one; in particular never an empty table.
C1_ReaderSeesOldOrNew ==
    (obsMid /\ ~Empty(prev.rows) /\ ~Empty(df_api)) =>
        (SameRecords(observed, prev.rows) \/ SameRecords(observed, df_api))

\* C2: when the bulk insert of save_data fails, whatever the tuple it fails at,
\* the committed table holds all tuples of the batch or none of them, and main
\* has shown the write error with the cause of the exception.
C2_LoadFailsAtomically ==
    load = "insert_failed" =>
        /\ Empty(committed) \/ SameRecords(committed, df_api)
        /\ \E m \in ui : m[1] = "write_error" /\ m[2] \in {"value too long", "transaction aborted"}

\* a failure after the first tuple of a two-tuple batch was inserted
C2_Witness ==
    /\ load = "insert_failed"
    /\ Len(df_api) >= 2
    /\ idx = 2
    /\ Len(work) = 1
    /\ Empty(committed)
    /\ <<"write_error", "value too long">> \in ui

\* C3: after a successful load of the snapshot df_api, get_all_data returns
\* exactly the records of df_api (as many rows, the same tuples, duplicates
\* kept) whatever the table held before.
C3_RoundTrip ==
    (load = "ok" /\ pc \in {"report", "done"}) => SameRecords(df_db, df_api)

\* a reload with a smaller snapshot than the table held, read back
C3_Witness ==
    /\ load = "ok"
    /\ pc = "done"
    /\ Len(prev.rows) > Len(df_api)
    /\ Len(df_db) = Len(df_api)
    /\ ~Empty(df_db)

\* C4: _connect makes at most MaxAttempts attempts, stops at the first success,
\* sleeps RetryDelay only between two attempts, reports the failure when all
\* attempts failed, and leaves conn set exactly when an attempt succeeded.
C4_RetryWaitsOnlyBetweenAttempts ==
    Connected =>
        /\ attempts >= 1 /\ attempts <= MaxAttempts
        /\ waited = RetryDelay * (attempts - 1)
        /\ conn = "none" => attempts = MaxAttempts
        /\ conn = "none" <=> <<"error", "db_connect_failed">> \in ui

\* C5: with the connector disconnected, the failure of a storage operation
\* reaches the page as an error and is never shown as an empty database.
C5_DisconnectedNeverShownAsEmpty ==
    (Connected /\ conn = "none") => <<"warning", "database is empty">> \notin ui

\* C10: when the fetch of a reload fails or yields no record, neither init_db
\* nor the insert runs: the table is what it was when the reload was triggered,
\* and the fetch was made once.
C10_EmptyFetchLeavesTable ==
    (fetches > 0 /\ Empty(df_api)) =>
        /\ fetches = 1
        /\ load = "none"
        /\ pc \in {"tab1", "report", "done"}
        /\ tableExists = prev.exists
        /\ committed = prev.rows

\* a failed fetch over a non-empty table, the session run to its end
C10_Witness ==
    /\ fetches = 1
    /\ Empty(df_api)
    /\ <<"error", "fetch_failed">> \in ui
    /\ ~Empty(prev.rows)
    /\ pc = "done"
    /\ df_db = prev.rows

(***************************************************************************)
(* SpecAgg: get_aggregated_stats on every small table                      *)
(***************************************************************************)
StoredRow(n, r, p) ==
    [name |-> n, cca2 |-> "", cca3 |-> "", region |-> r, population |-> p, area |-> 0]

\* rows the table can hold: two regions, equal populations within a region,
\* equal totals across regions, an empty and a NULL region
AggRows ==
    {StoredRow("A", "Europe", 10), StoredRow("B", "Europe", 10),
     StoredRow("C", "Europe", 20), StoredRow("D", "Asia", 20),
     StoredRow("E", "Asia", 10),   StoredRow("F", "", 30),
     StoredRow("G", Null, 30)}

AggInit ==
    /\ SessionInit
    /\ aggTable \in SeqsUpTo(AggRows, MaxAggRows)
    /\ aggOut = <<>>
    /\ fetchIn = [ok |-> FALSE, body |-> <<>>]
    /\ fetchOut = [df |-> <<>>, error |-> FALSE]
    /\ histIn = [ok |-> FALSE, data |-> <<>>]
    /\ histOut = [none |-> TRUE, rows |-> <<>>, error |-> FALSE]
    /\ hpc = "idle"

\* db.get_aggregated_stats() on the stored rows
AggRun ==
    /\ aggOut = <<>>
    /\ \E out \in get_aggregated_stats(aggTable) : aggOut' = <<out>>
    /\ UNCHANGED <<aggTable, fetchIn, fetchOut, histIn, histOut, hpc>>
    /\ UNCHANGED dbVars

\* the page is drawn again: db.get_aggregated_stats() on the same stored rows
AggRunAgain ==
    /\ Len(aggOut) = 1
    /\ \E out \in get_aggregated_stats(aggTable) : aggOut' = Append(aggOut, out)
    /\ UNCHANGED <<aggTable, fetchIn, fetchOut, histIn, histOut, hpc>>
    /\ UNCHANGED dbVars

AggNext == AggRun \/ AggRunAgain

SpecAgg == AggInit /\ [][AggNext]_vars

\* the reference group-by, over the table in row order
RefRegions(t) == {t[i].region : i \in 1..Len(t)} \ {Null, ""}

RECURSIVE RefTotal(_, _, _)
RefTotal(t, r, n) ==
    IF n = 0 THEN 0
    ELSE RefTotal(t, r, n - 1) + (IF t[n].region = r THEN t[n].population ELSE 0)

RefRows(t, r) == {i \in 1..Len(t) : t[i].region = r}

IsMaxRow(t, r, i) == i \in RefRows(t, r) /\ \A j \in RefRows(t, r) : t[j].population <= t[i].population
IsMinRow(t, r, i) == i \in RefRows(t, r) /\ \A j \in RefRows(t, r) : t[j].population >= t[i].population

MatchesGroupBy(t, out) ==
    /\ Len(out) = Cardinality(RefRegions(t))
    /\ {out[k].region : k \in 1..Len(out)} = RefRegions(t)
    /\ \A k \in 1..Len(out) :
         /\ out[k].total_population = RefTotal(t, out[k].region, Len(t))
         /\ \E i \in 1..Len(t) :
              /\ IsMaxRow(t, out[k].region, i)
              /\ out[k].largest_country = t[i].name
              /\ out[k].largest_population = t[i].population
         /\ \E i \in 1..Len(t) :
              /\ IsMinRow(t, out[k].region, i)
              /\ out[k].smallest_country = t[i].name
              /\ out[k].smallest_population = t[i].population
    /\ \A a, b \in 1..Len(out) : a < b => out[a].total_population >= out[b].total_population

\* C6: get_aggregated_stats equals the reference group-by: one summary per
\* non-null, non-empty region and no other, the total the sum of the region's
\* populations, largest/smallest the name and population of a row of maximum /
\* minimum population, the summaries by total descending.
C6_AggregateIsGroupBy ==
    \A k \in 1..Len(aggOut) : MatchesGroupBy(aggTable, aggOut[k])

\* two regions, one of them with several rows, and a row without region
C6_Witness ==
    /\ Len(aggOut) >= 1
    /\ Len(aggTable) = 3
    /\ Len(aggOut[1]) = 2
    /\ \E k \in 1..2 : aggOut[1][k].total_population > aggOut[1][k].largest_population

\* the first row, in table order, of maximum / minimum population of region r
FirstMaxRow(t, r) == CHOOSE i \in 1..Len(t) : IsMaxRow(t, r, i) /\ \A j \in 1..(i - 1) : ~IsMaxRow(t, r, j)
FirstMinRow(t, r) == CHOOSE i \in 1..Len(t) : IsMinRow(t, r, i) /\ \A j \in 1..(i - 1) : ~IsMinRow(t, r, j)

\* C7: among rows of equal (maximum or minimum) population the aggregation
\* picks the one first in fetch order, and every run on the same stored rows
\* makes the same pick.
C7_TieBreakIsFetchOrder ==
    /\ \A k \in 1..Len(aggOut) : \A m \in 1..Len(aggOut[k]) :
         /\ aggOut[k][m].largest_country = aggTable[FirstMaxRow(aggTable, aggOut[k][m].region)].name
         /\ aggOut[k][m].smallest_country = aggTable[FirstMinRow(aggTable, aggOut[k][m].region)].name
    /\ \A k \in 1..Len(aggOut) : \A m \in 1..Len(aggOut[k]) : \A n \in 1..Len(aggOut[1]) :
         aggOut[1][n].region = aggOut[k][m].region =>
            /\ aggOut[1][n].largest_country = aggOut[k][m].largest_country
            /\ aggOut[1][n].smallest_country = aggOut[k][m].smallest_country

(***************************************************************************)
(* SpecFetch: fetch_api_data on every small response                       *)
(***************************************************************************)
ItemKeys == {"name", "cca2", "cca3", "region", "population", "area"}

\* the "name" objects: without and with the key "common"
NameObjects == {NoObj, [common |-> "Peru"]}

FieldOf(k, n) ==
    CASE k = "name"       -> n
      [] k = "cca2"       -> "PE"
      [] k = "cca3"       -> "PER"
      [] k = "region"     -> "Americas"
      [] k = "population" -> 7
      [] k = "area"       -> 3

\* country objects with every subset of the keys present
FetchItems == {[k \in D |-> FieldOf(k, n)] : D \in SUBSET ItemKeys, n \in NameObjects}

FetchResponses ==
    {[ok |-> FALSE, body |-> <<>>]} \cup
    {[ok |-> TRUE, body |-> b] : b \in SeqsUpTo(FetchItems, MaxItems)}

FetchInit ==
    /\ SessionInit
    /\ PureIdle

\* one call of fetch_api_data()
FetchCall ==
    /\ hpc = "idle"
    /\ \E resp \in FetchResponses :
         /\ fetchIn' = resp
         /\ fetchOut' = fetch_api_data(resp)
    /\ hpc' = "done"
    /\ UNCHANGED <<aggTable, aggOut, histIn, histOut>>
    /\ UNCHANGED dbVars

SpecFetch == FetchInit /\ [][FetchCall]_vars

Has(item, k) == k \in DOMAIN item

\* C9: for a JSON array of country objects the result has one record per
\* object, in source order, each present field copied and each missing field
\* replaced by its default: name "N/A", cca2 "", cca3 "", region "Other",
\* population 0, area 0.
C9_RowParityWithDefaults ==
    (hpc = "done" /\ fetchIn.ok) =>
        /\ ~fetchOut.error
        /\ Len(fetchOut.df) = Len(fetchIn.body)
        /\ \A i \in 1..Len(fetchIn.body) :
             LET item == fetchIn.body[i]
                 rec  == fetchOut.df[i]
             IN  /\ rec.name = IF Has(item, "name") /\ Has(item.name, "common")
                               THEN item.name.common ELSE "N/A"
                 /\ rec.cca2 = IF Has(item, "cca2") THEN item.cca2 ELSE ""
                 /\ rec.cca3 = IF Has(item, "cca3") THEN item.cca3 ELSE ""
                 /\ rec.region = IF Has(item, "region") THEN item.region ELSE "Other"
                 /\ rec.population = IF Has(item, "population") THEN item.population ELSE 0
                 /\ rec.area = IF Has(item, "area") THEN item.area ELSE 0

\* an object without area and region after a complete one
C9_Witness ==
    /\ hpc = "done"
    /\ fetchIn.ok
    /\ Len(fetchIn.body) = 2
    /\ DOMAIN fetchIn.body[1] = ItemKeys
    /\ DOMAIN fetchIn.body[2] = ItemKeys \ {"area", "region"}
    /\ fetchOut.df[2].area = 0
    /\ fetchOut.df[2].region = "Other"
    /\ fetchOut.df[1].region = "Americas"

(***************************************************************************)
(* SpecHistory: get_population_world_bank on every small response          *)
(***************************************************************************)
\* int() of a string of decimal digits, the string given as its characters
DigitValue(c) ==
    CASE c = "0" -> 0 [] c = "1" -> 1 [] c = "2" -> 2 [] c = "3" -> 3 [] c = "4" -> 4
      [] c = "5" -> 5 [] c = "6" -> 6 [] c = "7" -> 7 [] c = "8" -> 8 [] c = "9" -> 9

RECURSIVE ParseInt(_)
ParseInt(s) ==
    IF Len(s) = 0 THEN 0
    ELSE 10 * ParseInt(SubSeq(s, 1, Len(s) - 1)) + DigitValue(s[Len(s)])

\* the rows appended for the entries whose value is not None
RECURSIVE HistoryRows(_)
HistoryRows(entries) ==
    IF Len(entries) = 0 THEN <<>>
    ELSE LET e == Head(entries) IN
         (IF e.value # NullNumber
          THEN <<[country |-> e.country.value, year |-> ParseInt(e.date), population |-> e.value]>>
          ELSE <<>>) \o HistoryRows(Tail(entries))

\* the columns of pd.DataFrame(rows): the keys of the row dicts
Columns(rows) == IF Len(rows) = 0 THEN {} ELSE {"country", "year", "population"}

\* DataFrame.sort_values("year"): the rows by year ascending; the default
\* quicksort leaves rows of equal year in an order of its own
SortValuesByYear(rows) ==
    {[k \in 1..Len(rows) |-> rows[p[k]]] : p \in
        {q \in Permutations(1..Len(rows)) :
            \A a, b \in 1..Len(rows) : a < b => rows[q[a]].year <= rows[q[b]].year}}

\* A response is [ok, data]: ok is FALSE when the request or response.json()
\* raises; data is the JSON array, each element [isList, entries].  The
\* outcomes are [none, rows, error]: the return value (None or a DataFrame) and
\* whether st.error was called.
get_population_world_bank(resp) ==
    IF ~resp.ok
    THEN {[none |-> TRUE, rows |-> <<>>, error |-> TRUE]}
    ELSE IF Len(resp.data) > 1 /\ resp.data[2].isList
    THEN LET rows == HistoryRows(resp.data[2].entries) IN
         IF "year" \in Columns(rows)
         THEN {[none |-> FALSE, rows |-> s, error |-> FALSE] : s \in SortValuesByYear(rows)}
         ELSE {[none |-> TRUE, rows |-> <<>>, error |-> TRUE]}   \* KeyError: 'year'
    ELSE {[none |-> TRUE, rows |-> <<>>, error |-> FALSE]}

Year1999 == <<"1", "9", "9", "9">>
Year2000 == <<"2", "0", "0", "0">>
Year2001 == <<"2", "0", "0", "1">>

HistoryEntries ==
    [value : {NullNumber, 500}, date : {Year1999, Year2000, Year2001},
     country : {[value |-> "Peru"], [value |-> "World"]}]

PageInfo == [isList |-> FALSE, entries |-> <<>>]

HistoryResponses ==
    {[ok |-> FALSE, data |-> <<>>],
     [ok |-> TRUE, data |-> <<PageInfo>>],
     [ok |-> TRUE, data |-> <<PageInfo, PageInfo>>]} \cup
    {[ok |-> TRUE, data |-> <<PageInfo, [isList |-> TRUE, entries |-> es]>>] :
        es \in SeqsUpTo(HistoryEntries, MaxEntries)}

HistoryInit ==
    /\ SessionInit
    /\ PureIdle

\* one call of get_population_world_bank(country_code)
HistoryCall ==
    /\ hpc = "idle"
    /\ \E resp \in HistoryResponses :
         /\ histIn' = resp
         /\ \E out \in get_population_world_bank(resp) : histOut' = out
    /\ hpc' = "done"
    /\ UNCHANGED <<aggTable, aggOut, fetchIn, fetchOut>>
    /\ UNCHANGED dbVars

SpecHistory == HistoryInit /\ [][HistoryCall]_vars

\* the entries of the response's second element that have a value
ValuedEntries(resp) == SelectSeq(resp.data[2].entries, LAMBDA e : e.value # NullNumber)

\* C8: without a second element that is a sequence the result is None; with
\* one, also when every value is null, no error is reported and the result is a
\* sequence of one point per entry with a value (its own country label, its
\* year as an integer, its value), by year ascending.
C8_HistoryDropsNullsOnly ==
    (hpc = "done" /\ histIn.ok) =>
        IF Len(histIn.data) > 1 /\ histIn.data[2].isList
        THEN /\ ~histOut.error
             /\ ~histOut.none
             /\ Len(histOut.rows) = Len(ValuedEntries(histIn))
             /\ \A a, b \in 1..Len(histOut.rows) : a < b => histOut.rows[a].year <= histOut.rows[b].year
        ELSE histOut.none

====
